---- MODULE Spec2Model ----
(***************************************************************************)
(* Model of app.py: the BusinessIntelligenceAgent field-extraction         *)
(* pipeline (five research phases, aggregation, intent scoring) and the    *)
(* Streamlit session around it (research history, CSV export).             *)
(*                                                                         *)
(* Text.  A Python str is modelled as a sequence of tokens (words, blanks, *)
(* numbers, punctuation marks); "" is << >>, + is \o, `x in s` is the      *)
(* contiguous-subsequence test, s.lower() lowers every token, s.strip()    *)
(* drops the blank tokens at both ends.  A regular expression is matched   *)
(* token by token.  The Python value None is the reserved text None.       *)
(***************************************************************************)
EXTENDS Integers, Sequences, FiniteSets, TLC

(***************************************************************************)
(* Bounds of the model and constants of the program.                       *)
(***************************************************************************)
MaxRuns == 2            \* runs of one UI session (UISpec)

BasicMaxResults == 3    \* max_results of the Basic Info searches
WideMaxResults == 5     \* max_results of every other search
ScanLimit == 3          \* the [:3] slice of phases 2..5
DescLimit == 200        \* desc[:200] of the expansion news value
HighThreshold == 8      \* relevance_signals > 8 -> "High"
MediumThreshold == 5    \* relevance_signals > 5 -> "Medium"
HistoryShown == 5       \* research_results[-5:] of the sidebar

(***************************************************************************)
(* Text operations.                                                        *)
(***************************************************************************)
None == <<"<None>">>
Missing == <<"<missing>">>

\* the function f with its values computed once
Tabulate(f) == f @@ [x \in {} |-> x]

Min(S) == CHOOSE x \in S : \A y \in S : x <= y
Max(S) == CHOOSE x \in S : \A y \in S : y <= x

Truthy(s) == s # << >> /\ s # None

\* str.lower(), token by token
LowerTok(t) ==
    CASE t = "Acme" -> "acme"
      [] t = "Official" -> "official"
      [] t = "Website" -> "website"
      [] t = "LinkedIn" -> "linkedin"
      [] t = "Headquarters" -> "headquarters"
      [] t = "Mumbai" -> "mumbai"
      [] t = "Logistics" -> "logistics"
      [] t = "Expand" -> "expand"
      [] t = "New" -> "new"
      [] t = "Digital" -> "digital"
      [] t = "Transformation" -> "transformation"
      [] t = "IoT" -> "iot"
      [] t = "AWS" -> "aws"
      [] t = "CIO" -> "cio"
      [] t = "Cisco" -> "cisco"
      [] t = "Azure" -> "azure"
      [] t = "Dell" -> "dell"
      [] OTHER -> t

Lower(s) == Tabulate([i \in 1..Len(s) |-> LowerTok(s[i])])

\* kw in s
Contains(s, kw) ==
    \E i \in 1..(Len(s) - Len(kw) + 1) : SubSeq(s, i, i + Len(kw) - 1) = kw

\* any(x in s for x in kws)
AnyIn(kws, s) == \E kw \in kws : Contains(s, kw)

\* s[:n]
Slice(s, n) == SubSeq(s, 1, IF Len(s) < n THEN Len(s) ELSE n)

\* s.strip()
Strip(s) ==
    LET inked == {i \in 1..Len(s) : s[i] # " "}
    IN  IF inked = {} THEN << >>
        ELSE SubSeq(s, Min(inked), Max(inked))

\* character classes of the patterns, as token classes
DigitTokens == {"3", "5", "7", "12", "20", "500"}
CommaNumberTokens == {"1,200"}
PunctTokens == {".", ":", "|", "$", "-", "..."}
IsLetters(t) == t \notin DigitTokens \cup CommaNumberTokens \cup PunctTokens \cup {" ", ","}
LettersBlanksCommas(t) == IsLetters(t) \/ t \in {" ", ","}     \* [A-Za-z\s,]
LettersBlanks(t) == IsLetters(t) \/ t = " "                    \* [A-Za-z\s]

\* the index after the run of blank tokens that starts at i (\s*)
SkipBlanks(s, i) == Min({j \in i..(Len(s) + 1) : j = Len(s) + 1 \/ s[j] # " "})

\* the last index of the run of tokens of the class that starts at j
RunEnd(s, j, commas) ==
    LET InClass(t) == IF commas THEN LettersBlanksCommas(t) ELSE LettersBlanks(t)
    IN  Max({k \in j..Len(s) : \A m \in j..k : InClass(s[m])})

NoMatch == [found |-> FALSE, groups |-> << >>]

\* re.search(r'(h1|h2).*?([class]+)', s): groups <<head, run>>
SearchHeadRun(s, heads, commas) ==
    LET InClass(t) == IF commas THEN LettersBlanksCommas(t) ELSE LettersBlanks(t)
        starts == {i \in 1..Len(s) : s[i] \in heads /\ \E j \in (i + 1)..Len(s) : InClass(s[j])}
    IN  IF starts = {} THEN NoMatch
        ELSE LET i == Min(starts)
                 j == Min({k \in (i + 1)..Len(s) : InClass(s[k])})
             IN  [found |-> TRUE, groups |-> << <<s[i]>>, SubSeq(s, j, RunEnd(s, j, commas)) >>]

\* the digits \d+ can end on: the whole token, or what follows its comma
LastDigits(t) == IF t = "1,200" THEN "200" ELSE t

\* first match of r'(<number>)\s*(u1|u2|...)': groups <<number, unit>>
SearchNumberUnit(s, units, commaNumbers) ==
    LET IsNum(t) == t \in DigitTokens \/ t \in CommaNumberTokens
        hits == {i \in 1..Len(s) : IsNum(s[i]) /\ SkipBlanks(s, i + 1) <= Len(s)
                                   /\ s[SkipBlanks(s, i + 1)] \in units}
    IN  IF hits = {} THEN NoMatch
        ELSE LET i == Min(hits)
             IN  [found |-> TRUE,
                  groups |-> << <<IF commaNumbers THEN s[i] ELSE LastDigits(s[i])>>,
                                <<s[SkipBlanks(s, i + 1)]>> >>]

\* ', '.join(words)
Join(words) ==
    IF words = << >> THEN << >>
    ELSE Tabulate([i \in 1..(2 * Len(words) - 1) |->
                     IF i % 2 = 1 THEN words[(i + 1) \div 2] ELSE ", "])

\* first match of the budget pattern
\* r'(\$?\d+\.?\d*\s*(million|billion|cr|lakhs|crore)?)\s*(budget|capex|investment|spend)':
\* groups <<group 1, group 2>>, group 2 being "" when no unit matched
SearchBudget(s, units, words) ==
    LET IsNum(t) == t \in DigitTokens \/ t \in CommaNumberTokens
        After(i) == SkipBlanks(s, i + 1)
        Ends(i) == After(i) <= Len(s)
                   /\ \/ s[After(i)] \in words
                      \/ /\ s[After(i)] \in units
                         /\ SkipBlanks(s, After(i) + 1) <= Len(s)
                         /\ s[SkipBlanks(s, After(i) + 1)] \in words
        hits == {i \in 1..Len(s) : IsNum(s[i]) /\ Ends(i)}
    IN  IF hits = {} THEN NoMatch
        ELSE LET i == Min(hits)
                 dollar == IF i > 1 /\ s[i - 1] = "$" /\ s[i] \in DigitTokens THEN <<"$">> ELSE << >>
                 number == <<LastDigits(s[i])>>
             IN  IF s[After(i)] \in units
                 THEN [found |-> TRUE,
                       groups |-> <<dollar \o number \o SubSeq(s, i + 1, After(i)), <<s[After(i)]>> >>]
                 ELSE [found |-> TRUE,
                       groups |-> <<dollar \o number \o SubSeq(s, i + 1, After(i) - 1), << >> >>]

(***************************************************************************)
(* The field enumeration.                                                  *)
(***************************************************************************)
F_Name == "Company Name"
F_Intent == "Core intent"
F_Stage == "Stage"
F_Website == "Company Website URL"
F_LinkedIn == "LinkedIn URL"
F_HQ == "Headquarters (Location)"
F_Industry == "Industry Category"
F_Employees == "Employee Count (LinkedIn)"
F_Branches == "Branch Network / Facilities Count"
F_Expansion == "Expansion News (Last 12 Months)"
F_Digital == "Digital Transformation Initiatives / Smart Infra Programs"
F_IoT == "IoT / Automation / Edge Integration Mentioned"
F_Cloud == "Cloud Adoption / GCC Setup"
F_Leadership == "IT Infrastructure Leadership Change (CIO / CTO / Head Infra)"
F_Vendors == "Existing Network Vendors / Tech Stack"
F_WiFi == "Recent Wi-Fi Upgrade or LAN Tender Found"
F_Physical == "Physical Infrastructure Signals"
F_Budget == "IT Infra Budget / Capex Allocation"
F_Why == "Why Relevant to Syntel"
F_Score == "Intent scoring"

SeededFields == {F_Name, F_Intent, F_Stage}
SyntheticFields == {F_Why, F_Score}

Phases == 1..5

\* the keys of the dict each phase function builds and returns
PhaseFields(p) ==
    CASE p = 1 -> {F_Website, F_LinkedIn, F_HQ, F_Industry, F_Employees}
      [] p = 2 -> {F_Branches, F_Expansion}
      [] p = 3 -> {F_Digital, F_IoT, F_Cloud}
      [] p = 4 -> {F_Leadership, F_Vendors, F_WiFi}
      [] p = 5 -> {F_Physical, F_Budget}

ResearchedFields == UNION {PhaseFields(p) : p \in Phases}
AllFields == SeededFields \cup ResearchedFields \cup SyntheticFields

Rec(v, s) == [value |-> v, source |-> s]
Unset == Rec(<< >>, << >>)

\* info = {...: {"value": "", "source": ""}, ...} at the top of a phase function
EmptyInfo(p) == [f \in PhaseFields(p) |-> Unset]

\* the query templates of each phase, in the order the phase issues them
QuerySuffixes(p) ==
    CASE p = 1 -> <<"official website", "LinkedIn", "headquarters location",
                    "industry", "employee count">>
      [] p = 2 -> <<"expansion news 2024 2025 new facilities branches",
                    "branch network facilities count locations offices">>
      [] p = 3 -> <<"digital transformation initiatives", "smart infrastructure programs",
                    "technology upgrade digitalization">>
      [] p = 4 -> <<"IT infrastructure leadership CIO CTO", "technology stack vendors",
                    "network infrastructure Wi-Fi LAN">>
      [] p = 5 -> <<"IT infrastructure budget capex", "physical infrastructure data center",
                    "investment technology infrastructure">>

NQueries(p) == Len(QuerySuffixes(p))

\* f"{company_name} <suffix>"
QueryText(name, p, n) == name \o <<" ", QuerySuffixes(p)[n]>>

\* max_results of the search a phase makes
MaxResults(p) == IF p = 1 THEN BasicMaxResults ELSE WideMaxResults

\* a hit loop without the [:3] slice
ScannedAll(p, items) == items

\* how many of the returned hits a phase looks at: all of them in Basic Info,
\* result["results"][:3] elsewhere
Scanned(p, items) == IF p = 1 THEN items ELSE Slice(items, ScanLimit)

(***************************************************************************)
(* The search provider.  What DDGS returns is an input: for a query of     *)
(* phase p, any ranking without repetition of at most max_results of the   *)
(* raw results RawPool(p), or an exception.  A raw result is a dict with   *)
(* the keys title, href, body; a key the provider left out holds Missing,  *)
(* a key it set to None holds None.                                        *)
(***************************************************************************)
Raw(t, h, b) == [title |-> t, href |-> h, body |-> b]

Filler == Raw(<<"Acme">>, <<"https://acme.co/about">>, <<"about", " ", "us">>)
Malformed == Raw(<<"Acme">>, <<"https://acme.co/x">>, None)
Careers == Raw(<<"Acme", " ", "careers">>, <<"https://acme.co/careers">>, <<"about", " ", "us">>)

\* a hit that triggers the fields of phase p
Good(p) ==
    CASE p = 1 ->
           Raw(<<"Acme", " ", "Official", " ", "Website">>, <<"https://acme.co">>,
               <<"Headquarters", " ", "in", " ", "Mumbai", ".", " ", "Logistics", " ",
                 "industry", " ", "leader", ",", " ", "500", " ", "employees">>)
      [] p = 2 ->
           Raw(<<"Acme", " ", "expands">>, <<"https://news.example/expansion">>,
               <<"Acme", " ", "to", " ", "Expand", " ", "with", " ", "12", " ", "branches">>)
      [] p = 3 ->
           Raw(<<"Acme", " ", "digital">>, <<"https://acme.co/digital">>,
               <<"Digital", " ", "Transformation", " ", "with", " ", "IoT", " ", "sensors",
                 " ", "on", " ", "AWS">>)
      [] p = 4 ->
           Raw(<<"Acme", " ", "names", " ", "CIO">>, <<"https://acme.co/cio">>,
               <<"New", " ", "CIO", " ", "picks", " ", "Cisco", " ", "and", " ", "Azure",
                 " ", "for", " ", "network", " ", "tender">>)
      [] p = 5 ->
           Raw(<<"Acme", " ", "capex">>, <<"https://acme.co/ir">>,
               <<"New", " ", "data", " ", "center", ",", " ", "$", "5", " ", "million",
                 " ", "capex">>)

\* another hit for phase p: other values, a capture of blanks only, no href
Alt(p) ==
    CASE p = 1 ->
           Raw(<<"Acme", " ", "home", " ", "|", " ", "LinkedIn">>,
               <<"https://", "linkedin.com", "/company/acme">>,
               <<"Headquarters", ":", " ", "12", ",", " ", "sector", " ", "7", ",", " ",
                 "1,200", " ", "staff">>)
      [] p = 2 ->
           Raw(<<"Acme", " ", "opening">>, Missing,
               <<"New", " ", "branch", " ", "opening", ",", " ", "5", " ", "offices">>)
      [] p = 3 ->
           Raw(<<"Smart", " ", "infra">>, Missing,
               <<"smart", " ", "infrastructure", " ", "program">>)

\* the raw results the provider ranks for a query of phase p
RawPool(p) ==
    CASE p = 1 -> {Good(p), Alt(p), Malformed}
      [] p = 2 -> {Good(p), Alt(p), Filler, Malformed}
      [] p = 3 -> {Good(p), Alt(p), Filler, Careers, Malformed}
      [] OTHER -> {Good(p), Filler, Malformed}

\* the rankings without repetition of at most n elements of pool
Rankings(pool, n) ==
    LET top == IF Cardinality(pool) < n THEN Cardinality(pool) ELSE n
    IN  UNION { {r \in [1..k -> pool] : \A i, j \in 1..k : i # j => r[i] # r[j]} : k \in 0..top }

\* what self.ddgs.text / self.ddgs.news can do for a query of each phase
ProviderOutcomes ==
    [p \in Phases |->
        {[ok |-> FALSE, raw |-> << >>]}
        \cup {[ok |-> TRUE, raw |-> r] : r \in Rankings(RawPool(p), MaxResults(p))}]

\* dict.get(key, default)
Get(v, default) == IF v = Missing THEN default ELSE v

\* the formatted_results entry of one raw result
Format(result) ==
    [title |-> Get(result.title, << >>),
     url |-> Get(result.href, << >>),
     description |-> Get(result.body, << >>)]

\* formatted_results
FormatAll(raw) == Tabulate([i \in 1..Len(raw) |-> Format(raw[i])])

\* duckduckgo_search without its except branch: the provider's error gets out
DuckDuckGoSearchRaises(outcome) ==
    IF outcome.ok
    THEN [results |-> FormatAll(outcome.raw),
          error |-> FALSE, raised |-> FALSE]
    ELSE [results |-> << >>, error |-> TRUE, raised |-> TRUE]

\* duckduckgo_search: the formatted hits, or no hits and an error string; its
\* try/except lets no exception out (raised)
DuckDuckGoSearch(outcome) ==
    IF outcome.ok
    THEN [results |-> FormatAll(outcome.raw),
          error |-> FALSE, raised |-> FALSE]
    ELSE [results |-> << >>, error |-> TRUE, raised |-> FALSE]

(***************************************************************************)
(* The phase extractors, one hit at a time.                                *)
(***************************************************************************)

\* `if not info[field]["value"] and <trigger>: info[field] = {...}`
MergeField(current, found, candidate) ==
    IF ~Truthy(current.value) /\ found THEN candidate ELSE current

\* x.lower() raises AttributeError on None
LowerRaises(x) == x = None

WebsiteWords == {<<"official">>, <<"website">>, <<"home">>}
HQWords == {<<"headquarters">>, <<"head", " ", "office">>, <<"based", " ", "in">>,
            <<"located", " ", "in">>}
IndustryWords == {<<"industry">>, <<"sector">>}
StaffUnits == {"employees", "staff", "people"}

\* what a field's test finds in a hit: whether its trigger holds, and the dict
\* the field is then assigned
Cand(found, rec) == [found |-> found, rec |-> IF found THEN rec ELSE Unset]

\* the tests of the loop body of extract_company_basic_info
BasicCandidates(item) ==
    LET url == item.url
        title == Lower(item.title)
        desc == Lower(item.description)
        hq == SearchHeadRun(desc, {"headquarters", "based"}, TRUE)
        ind == SearchHeadRun(desc, {"industry", "sector"}, FALSE)
        emp == SearchNumberUnit(desc, StaffUnits, TRUE)
    IN  (F_Website :> Cand(AnyIn(WebsiteWords, title), Rec(url, url)))
        @@ (F_LinkedIn :> Cand(Contains(url, <<"linkedin.com">>), Rec(url, url)))
        @@ (F_HQ :> Cand(AnyIn(HQWords, desc) /\ hq.found, Rec(Strip(hq.groups[2]), url)))
        @@ (F_Industry :> Cand(AnyIn(IndustryWords, desc) /\ ind.found,
                               Rec(Strip(ind.groups[2]), url)))
        @@ (F_Employees :> Cand(emp.found, Rec(emp.groups[1] \o <<" ", "employees">>, url)))

ExpansionWords == {<<"expand">>, <<"new", " ", "facility">>, <<"new", " ", "branch">>,
                   <<"opening">>, <<"launch">>}
FacilityUnits == {"branches", "facilities", "locations", "offices", "warehouses"}

\* the test of the loop over the news hits in research_expansion_news
NewsCandidates(item) ==
    LET url == item.url
        title == item.title
        desc == item.description
    IN  (F_Expansion :> Cand(AnyIn(ExpansionWords, Lower(desc)),
                             Rec(title \o <<" - ">> \o Slice(desc, DescLimit) \o <<"...">>, url)))
        @@ (F_Branches :> Cand(FALSE, Unset))

\* the test of the loop over the facility hits in research_expansion_news
FacilityCandidates(item) ==
    LET url == item.url
        desc == Lower(item.description)
        count == SearchNumberUnit(desc, FacilityUnits, FALSE)
    IN  (F_Branches :> Cand(count.found,
                            Rec(count.groups[1] \o <<" ">> \o count.groups[2], url)))
        @@ (F_Expansion :> Cand(FALSE, Unset))

DigitalWords == {<<"digital", " ", "transformation">>, <<"digital", " ", "initiative">>,
                 <<"smart", " ", "infrastructure">>, <<"digitalization">>}
IoTWords == {<<"iot">>, <<"automation">>, <<"edge", " ", "computing">>, <<"sensors">>,
             <<"internet", " ", "of", " ", "things">>}
CloudWords == {<<"cloud", " ", "adoption">>, <<"gcc", " ", "setup">>, <<"aws">>, <<"azure">>,
               <<"google", " ", "cloud">>, <<"cloud", " ", "migration">>}

\* the tests of the loop body of research_digital_transformation
DigitalCandidates(item) ==
    LET url == item.url
        desc == Lower(item.description)
    IN  (F_Digital :> Cand(AnyIn(DigitalWords, desc),
                           Rec(Get(item.title, << >>) \o <<" - ">>
                               \o Get(item.description, <<"Digital initiatives found">>), url)))
        @@ (F_IoT :> Cand(AnyIn(IoTWords, desc),
                          Rec(<<"Yes - ">> \o Get(item.description, <<"IoT/Automation mentioned">>), url)))
        @@ (F_Cloud :> Cand(AnyIn(CloudWords, desc),
                            Rec(Get(item.description, <<"Cloud initiatives mentioned">>), url)))

LeadershipWords == {<<"cio">>, <<"cto">>, <<"it", " ", "director">>, <<"technology", " ", "head">>,
                    <<"chief", " ", "information">>}
VendorKeywords == <<"cisco", "juniper", "aruba", "hp", "dell", "vmware", "microsoft", "oracle",
                    "aws", "azure">>
UpgradeWords == {<<"wi-fi", " ", "upgrade">>, <<"lan", " ", "upgrade">>, <<"network", " ", "tender">>,
                 <<"infrastructure", " ", "upgrade">>, <<"wireless", " ", "upgrade">>}

\* the tests of the loop body of research_technology_stack
TechCandidates(item) ==
    LET url == item.url
        desc == Lower(item.description)
        InDesc(vendor) == Contains(desc, <<vendor>>)
        vendors == SelectSeq(VendorKeywords, InDesc)
    IN  (F_Leadership :> Cand(AnyIn(LeadershipWords, desc),
                              Rec(Get(item.title, << >>) \o <<" - ">>
                                  \o Get(item.description, <<"IT leadership mentioned">>), url)))
        @@ (F_Vendors :> Cand(vendors # << >>,
                              Rec(<<"Technologies mentioned: ">> \o Join(vendors), url)))
        @@ (F_WiFi :> Cand(AnyIn(UpgradeWords, desc),
                           Rec(Get(item.description, <<"Network upgrade mentioned">>), url)))

PhysicalWords == {<<"data", " ", "center">>, <<"server", " ", "room">>,
                  <<"network", " ", "infrastructure">>, <<"physical", " ", "infrastructure">>,
                  <<"facility", " ", "expansion">>}
BudgetUnits == {"million", "billion", "cr", "lakhs", "crore"}
BudgetWords == {"budget", "capex", "investment", "spend"}

\* the tests of the loop body of research_financial_infrastructure
FinancialCandidates(item) ==
    LET url == item.url
        desc == Lower(item.description)
        budget == SearchBudget(desc, BudgetUnits, BudgetWords)
    IN  (F_Physical :> Cand(AnyIn(PhysicalWords, desc),
                            Rec(Get(item.title, << >>) \o <<" - ">>
                                \o Get(item.description, <<"Physical infrastructure mentioned">>), url)))
        @@ (F_Budget :> Cand(budget.found,
                             Rec(<<"Budget mentioned: ">> \o budget.groups[1] \o <<" ">>
                                 \o budget.groups[2], url)))

\* the tests query q of phase p applies to a hit (phase 2 has one loop per query)
Candidates(p, n, item) ==
    CASE p = 1 -> BasicCandidates(item)
      [] p = 2 /\ n = 1 -> NewsCandidates(item)
      [] p = 2 /\ n # 1 -> FacilityCandidates(item)
      [] p = 3 -> DigitalCandidates(item)
      [] p = 4 -> TechCandidates(item)
      [] p = 5 -> FinancialCandidates(item)

\* Candidates, tabulated over the hits the provider can return
CandidateTable ==
    Tabulate([p \in Phases |-> Tabulate([n \in 1..NQueries(p) |->
        Tabulate([item \in {Format(raw) : raw \in RawPool(p)} |-> Candidates(p, n, item)])])])

\* the loop body of query q of phase p: every field of the phase that is
\* still unset takes what its test found
ItemStep(p, n, dict, item) ==
    LET found == CandidateTable[p][n][item]
    IN  Tabulate([f \in DOMAIN dict |-> MergeField(dict[f], found[f].found, found[f].rec)])

\* whether the loop body raises on this hit: .lower() of a None title or
\* description; the news loop lowers the description only while the news
\* field is unset
ItemRaises(p, n, dict, item) ==
    CASE p = 1 -> LowerRaises(item.title) \/ LowerRaises(item.description)
      [] p = 2 /\ n = 1 -> ~Truthy(dict[F_Expansion].value) /\ LowerRaises(item.description)
      [] OTHER -> LowerRaises(item.description)

\* the loop over the hits of one search: the info dict when it ends, and
\* whether it ended by an exception
RECURSIVE ScanItems(_, _, _, _)
ScanItems(p, n, dict, items) ==
    IF items = << >> THEN [raised |-> FALSE, info |-> dict]
    ELSE IF ItemRaises(p, n, dict, items[1]) THEN [raised |-> TRUE, info |-> dict]
    ELSE ScanItems(p, n, ItemStep(p, n, dict, items[1]), Tail(items))

\* one query of a phase: the search, then
\* `if "results" in result and result["results"]: for item in ...`
QueryStep(p, n, dict, outcome) ==
    LET result == DuckDuckGoSearch(outcome)
    IN  IF result.raised THEN [raised |-> TRUE, info |-> dict]
        ELSE IF result.results # << >>
        THEN ScanItems(p, n, dict, Scanned(p, result.results))
        ELSE [raised |-> FALSE, info |-> dict]

(***************************************************************************)
(* comprehensive_research: seeding, merging, scoring.                      *)
(***************************************************************************)
\* the results dict before any phase runs
Seed(company_name) ==
    (F_Name :> Rec(company_name, <<"User Input">>))
    @@ (F_Intent :> Rec(<<"Research">>, <<"Default">>))
    @@ (F_Stage :> Rec(<<"Analysis">>, <<"Default">>))

\* results.update(phase_results)
Update(res, phase_results) ==
    [k \in DOMAIN res \cup DOMAIN phase_results |->
        IF k \in DOMAIN phase_results THEN phase_results[k] ELSE res[k]]

\* an except branch that merges what the phase had found when it raised
OnPhaseErrorMerges(res, partial) == Update(res, partial)

\* the except branch of the phase loop: st.error(...), results untouched
OnPhaseError(res, partial) == res

\* sum(1 for key in results if results[key]["value"] and "source" in results[key]
\*                             and results[key]["source"])
RelevanceSignals(res) ==
    Cardinality({k \in DOMAIN res : Truthy(res[k].value) /\ Truthy(res[k].source)})

\* the thresholds taken as inclusive
IntentScoreAtLeast(relevance_signals) ==
    IF relevance_signals >= HighThreshold THEN "High"
    ELSE IF relevance_signals >= MediumThreshold THEN "Medium"
    ELSE "Low"

IntentScore(relevance_signals) ==
    IF relevance_signals > HighThreshold THEN "High"
    ELSE IF relevance_signals > MediumThreshold THEN "Medium"
    ELSE "Low"

\* str(n) of a natural number
DigitChar(d) ==
    CASE d = 0 -> "0" [] d = 1 -> "1" [] d = 2 -> "2" [] d = 3 -> "3" [] d = 4 -> "4"
      [] d = 5 -> "5" [] d = 6 -> "6" [] d = 7 -> "7" [] d = 8 -> "8" [] d = 9 -> "9"
RECURSIVE Str(_)
Str(n) == IF n < 10 THEN DigitChar(n) ELSE Str(n \div 10) \o DigitChar(n % 10)

\* f"Found {relevance_signals} relevant business intelligence signals ..."
Explanation(relevance_signals) ==
    <<"Found ", Str(relevance_signals),
      " relevant business intelligence signals including expansion, digital transformation, and infrastructure initiatives">>

\* a scoring that counts after the Intent scoring field is in the results
ScoreCountsSynthetic(res) ==
    LET relevance_signals ==
            RelevanceSignals(Update(res, F_Score :> Rec(<<"Pending">>, <<"Algorithm">>)))
    IN  Update(res,
               (F_Why :> Rec(Explanation(relevance_signals), <<"Analysis">>))
               @@ (F_Score :> Rec(<<IntentScore(relevance_signals)>>, <<"Algorithm">>)))

\* the two synthetic fields, computed from the merged results
Score(res) ==
    LET relevance_signals == RelevanceSignals(res)
    IN  Update(res,
               (F_Why :> Rec(Explanation(relevance_signals), <<"Analysis">>))
               @@ (F_Score :> Rec(<<IntentScore(relevance_signals)>>, <<"Algorithm">>)))

(***************************************************************************)
(* State.                                                                  *)
(***************************************************************************)
VARIABLES
    pc,                \* where comprehensive_research stands
    company,           \* company_name of the run
    phase,             \* the research phase being run, 1..5
    q,                 \* the next query of the phase
    info,              \* the dict the running phase function fills
    results,           \* the results dict of comprehensive_research
    errors,            \* the st.error diagnostics of the run: the phases that raised
    issued,            \* the queries issued by the phase function called last
    allFailed,         \* every search of the run so far ended in the provider's error
    discarded,         \* a phase of the run raised after it had matched a field
    history,           \* st.session_state.research_results
    clock,             \* datetime.now()
    current_research,  \* st.session_state.current_research
    export             \* the rows of the last CSV download

pipelineVars == <<pc, company, phase, q, info, results, errors, issued, allFailed, discarded>>
uiVars == <<history, clock, current_research, export>>
vars == <<pc, company, phase, q, info, results, errors, issued, allFailed, discarded,
          history, clock, current_research, export>>

Companies == {<<"Acme">>}

NoInfo == [f \in {} |-> Unset]
NoResearch == [timestamp |-> << >>, company |-> << >>, data |-> NoInfo]
NoExport == [columns |-> << >>, rows |-> << >>]

Init ==
    /\ pc = "Idle"
    /\ company = << >>
    /\ phase = 0
    /\ q = 0
    /\ info = NoInfo
    /\ results = NoInfo
    /\ errors = << >>
    /\ issued = << >>
    /\ allFailed = TRUE
    /\ discarded = FALSE
    /\ history = << >>
    /\ clock = 0
    /\ current_research = NoResearch
    /\ export = NoExport

(***************************************************************************)
(* The steps of one call of comprehensive_research.                        *)
(***************************************************************************)
\* the fields of a dict that hold a value
Matched(d) == {k \in DOMAIN d : Truthy(d[k].value)}

\* the for loop over research_phases moves on after phase p
Advance(p) ==
    IF p < 5
    THEN /\ pc' = "Phase"
         /\ phase' = p + 1
         /\ q' = 1
         /\ info' = EmptyInfo(p + 1)
    ELSE /\ pc' = "Score"
         /\ phase' = 0
         /\ q' = 0
         /\ info' = NoInfo

\* comprehensive_research(company_name) is entered: the seeded results, then
\* the first phase function is called
Start(c) ==
    /\ pc = "Idle"
    /\ pc' = "Phase"
    /\ company' = c
    /\ results' = Seed(c)
    /\ phase' = 1
    /\ q' = 1
    /\ info' = EmptyInfo(1)
    /\ errors' = << >>
    /\ issued' = << >>
    /\ allFailed' = TRUE
    /\ discarded' = FALSE
    /\ UNCHANGED uiVars

\* self.duckduckgo_search(query, ...) is called with the n-th query of a phase
Issue(log, n, query) == IF n = 1 THEN <<query>> ELSE Append(log, query)

\* a query loop that stops once every field of the phase holds a value
NextQueryWhileUnset(p, n, dict) ==
    IF \A f \in DOMAIN dict : Truthy(dict[f].value) THEN NQueries(p) + 1 ELSE n + 1

\* for query in queries: the query after the n-th, whatever dict holds
NextQuery(p, n, dict) == n + 1

\* the hits of the query are scanned to the end: the phase goes on to its
\* next query
ScanEnds(outcome, r) ==
    /\ ~r.raised
    /\ info' = r.info
    /\ q' = NextQuery(phase, q, r.info)
    /\ issued' = Issue(issued, q, QueryText(company, phase, q))
    /\ allFailed' = (allFailed /\ ~outcome.ok)
    /\ UNCHANGED <<pc, company, phase, results, errors, discarded>>
    /\ UNCHANGED uiVars

\* a phase loop without try/except: the exception ends the run
PhaseRaisesAborts(outcome, r) ==
    /\ r.raised
    /\ pc' = "Aborted"
    /\ issued' = Issue(issued, q, QueryText(company, phase, q))
    /\ allFailed' = (allFailed /\ ~outcome.ok)
    /\ UNCHANGED <<company, phase, q, info, results, errors, discarded>>
    /\ UNCHANGED uiVars

\* a hit of the query makes the phase function raise: the except branch of
\* the phase loop, then the next phase
PhaseRaises(outcome, r) ==
    /\ r.raised
    /\ results' = OnPhaseError(results, r.info)
    /\ errors' = Append(errors, phase)
    /\ discarded' = (discarded \/ Matched(r.info) # {})
    /\ allFailed' = (allFailed /\ ~outcome.ok)
    /\ issued' = Issue(issued, q, QueryText(company, phase, q))
    /\ Advance(phase)
    /\ UNCHANGED company
    /\ UNCHANGED uiVars

\* the running phase issues its next query: duckduckgo_search, then the loop
\* over the hits
Search ==
    /\ pc = "Phase"
    /\ q <= NQueries(phase)
    /\ \E outcome \in ProviderOutcomes[phase] :
          LET r == QueryStep(phase, q, info, outcome)
          IN  \/ ScanEnds(outcome, r)
              \/ PhaseRaises(outcome, r)

\* the phase function returns its dict: results.update(phase_results)
PhaseReturn ==
    /\ pc = "Phase"
    /\ q > NQueries(phase)
    /\ results' = Update(results, info)
    /\ Advance(phase)
    /\ UNCHANGED <<company, errors, issued, allFailed, discarded>>
    /\ UNCHANGED uiVars

\* the intent scoring after the phase loop
ComputeScore ==
    /\ pc = "Score"
    /\ results' = Score(results)
    /\ pc' = "Scored"
    /\ UNCHANGED <<company, phase, q, info, errors, issued, allFailed, discarded>>
    /\ UNCHANGED uiVars

\* return results
Return ==
    /\ pc = "Scored"
    /\ pc' = "Done"
    /\ UNCHANGED <<company, phase, q, info, results, errors, issued, allFailed, discarded>>
    /\ UNCHANGED uiVars

Next ==
    \/ \E c \in Companies : Start(c)
    \/ Search
    \/ PhaseReturn
    \/ ComputeScore
    \/ Return

Spec == Init /\ [][Next]_vars

\* a call of comprehensive_research keeps running: every search returns and no
\* step of the loop blocks
LiveSpec == Spec /\ WF_vars(Next)

(***************************************************************************)
(* comprehensive_research as one call, for a provider whose answer to      *)
(* every query of the run is fixed (a world).                              *)
(***************************************************************************)
\* the queries n, n+1, ... of phase p
RECURSIVE RunQueries(_, _, _, _)
RunQueries(p, n, dict, world) ==
    IF n > NQueries(p) THEN [raised |-> FALSE, info |-> dict]
    ELSE LET r == QueryStep(p, n, dict, world[p][n])
         IN  IF r.raised THEN r ELSE RunQueries(p, n + 1, r.info, world)

\* research_func(company_name) of phase p
PhaseFunction(p, world) == RunQueries(p, 1, EmptyInfo(p), world)

\* the loop over research_phases, from phase p on
RECURSIVE RunPhases(_, _, _)
RunPhases(p, res, world) ==
    IF p > 5 THEN res
    ELSE LET r == PhaseFunction(p, world)
         IN  RunPhases(p + 1, IF r.raised THEN OnPhaseError(res, r.info) ELSE Update(res, r.info),
                       world)

ComprehensiveResearch(company_name, world) == Score(RunPhases(1, Seed(company_name), world))

\* the provider answers every query of phase p with the ranking raw
Answering(raw) == [p \in Phases |-> [n \in 1..NQueries(p) |-> [ok |-> TRUE, raw |-> raw[p]]]]

Worlds ==
    { [p \in Phases |-> [n \in 1..NQueries(p) |-> [ok |-> FALSE, raw |-> << >>]]],
      Answering([p \in Phases |-> <<Good(p)>>]),
      Answering([p \in Phases |-> IF p <= 3 THEN <<Alt(p)>> ELSE <<Filler>>]),
      Answering([p \in Phases |-> IF p = 3 THEN <<Good(p), Malformed>> ELSE <<Good(p)>>]) }

(***************************************************************************)
(* The Streamlit script: one run of it per interaction.                    *)
(***************************************************************************)
CompanyInputs == {<<"Acme">>, <<"YES", " ", "Bank">>}

\* datetime.now().isoformat()
IsoFormat(t) == <<Str(t)>>

\* research_results.insert(0, {...})
PrependEntry(h, entry) == <<entry>> \o h

\* st.session_state.research_results.append({...})
AppendEntry(h, entry) == Append(h, entry)

\* the order in which comprehensive_research inserts the keys
FieldOrder ==
    <<F_Name, F_Intent, F_Stage,
      F_Website, F_LinkedIn, F_HQ, F_Industry, F_Employees,
      F_Branches, F_Expansion,
      F_Digital, F_IoT, F_Cloud,
      F_Leadership, F_Vendors, F_WiFi,
      F_Physical, F_Budget,
      F_Why, F_Score>>

\* the keys of a results dict, in insertion order
Keys(data) == LET Present(k) == k \in DOMAIN data IN SelectSeq(FieldOrder, Present)

\* the assignments that build the row of one research, in order
FieldPairs(data, keys) ==
    [i \in 1..(2 * Len(keys)) |->
        IF i % 2 = 1 THEN <<keys[(i + 1) \div 2], data[keys[(i + 1) \div 2]].value>>
        ELSE <<keys[i \div 2] \o " Source", data[keys[i \div 2]].source>>]

RowPairs(research) ==
    << <<"Company", research.company>>, <<"Research Date", research.timestamp>> >>
    \o FieldPairs(research.data, Keys(research.data))

\* the keys of a dict built by the assignments pairs, in insertion order
PairKeys(pairs) ==
    LET first == {i \in 1..Len(pairs) : \A j \in 1..(i - 1) : pairs[j][1] # pairs[i][1]}
    IN  [k \in 1..Cardinality(first) |->
            pairs[CHOOSE i \in first : Cardinality({j \in first : j <= i}) = k][1]]

\* the dict built by the assignments pairs: the last assignment to a key stands
PairDict(pairs) ==
    [c \in {pairs[i][1] : i \in 1..Len(pairs)} |->
        pairs[Max({i \in 1..Len(pairs) : pairs[i][1] = c})][2]]

\* pd.DataFrame(all_data).to_csv(index=False): the columns are the keys of the
\* rows in order of first appearance, a row without a column has an empty cell
RECURSIVE AllPairs(_)
AllPairs(h) == IF h = << >> THEN << >> ELSE RowPairs(Head(h)) \o AllPairs(Tail(h))

ToCsv(h) ==
    LET columns == PairKeys(AllPairs(h))
        Row(research) ==
            LET row == PairDict(RowPairs(research))
            IN  [c \in {columns[i] : i \in 1..Len(columns)} |->
                    IF c \in DOMAIN row THEN row[c] ELSE << >>]
    IN  [columns |-> columns, rows |-> [i \in 1..Len(h) |-> Row(h[i])]]

\* research_results[-5:], reversed
Shown(h) ==
    LET last == SubSeq(h, IF Len(h) > HistoryShown THEN Len(h) - HistoryShown + 1 ELSE 1, Len(h))
    IN  [i \in 1..Len(last) |-> last[Len(last) + 1 - i]]

\* the research button with a company name: the run, then the append
ResearchButton ==
    /\ Len(history) < MaxRuns
    /\ \E c \in CompanyInputs, world \in Worlds :
          history' = AppendEntry(history, [timestamp |-> IsoFormat(clock),
                                           company |-> c,
                                           data |-> ComprehensiveResearch(c, world)])
    /\ clock' = clock + 1
    /\ UNCHANGED <<current_research, export>>
    /\ UNCHANGED pipelineVars

\* a "View Details" button of the history sidebar
ViewDetails ==
    /\ history # << >>
    /\ \E i \in 1..Len(Shown(history)) : current_research' = Shown(history)[i]
    /\ UNCHANGED <<history, clock, export>>
    /\ UNCHANGED pipelineVars

\* the "Download All Research as CSV" button
DownloadCSV ==
    /\ history # << >>
    /\ export' = ToCsv(history)
    /\ UNCHANGED <<history, clock, current_research>>
    /\ UNCHANGED pipelineVars

UINext ==
    \/ ResearchButton
    \/ ViewDetails
    \/ DownloadCSV

UISpec == Init /\ [][UINext]_vars

(***************************************************************************)
(* Properties of one call of comprehensive_research (Spec, LiveSpec).      *)
(***************************************************************************)
\* the phases whose function raised
Errored == {errors[i] : i \in 1..Len(errors)}

\* the run is past its phase loop
Finished == pc \in {"Score", "Scored", "Done"}

\* C1: the returned result has exactly the fixed field enumeration as keys,
\* whatever phases raised.
C1_Completeness == pc = "Done" => DOMAIN results = AllFields

\* C2: when several hits of a phase satisfy a field's trigger, the field ends
\* with the value and source of the earliest of them in scan order, and a
\* field a hit has set is not assigned again.
C2_FirstMatchWins ==
    (pc = "Phase" /\ q <= NQueries(phase)) =>
        \A outcome \in ProviderOutcomes[phase] :
            LET items == Scanned(phase, DuckDuckGoSearch(outcome).results)
                r == QueryStep(phase, q, info, outcome)
                Triggering(f) ==
                    {i \in 1..Len(items) : Candidates(phase, q, items[i])[f].found}
            IN  ~r.raised =>
                    \A f \in PhaseFields(phase) :
                        r.info[f] =
                            IF info[f] # Unset THEN info[f]
                            ELSE IF Triggering(f) = {} THEN Unset
                            ELSE Candidates(phase, q, items[Min(Triggering(f))])[f].rec

\* C3: the phases run in the fixed order, each once; a phase that raises is
\* not retried and does not end the run; the score follows the fifth phase
\* and the return follows the score; a started run reaches Done.
C3_PhaseOrder ==
    /\ [][/\ pc = "Idle" => pc' = "Phase" /\ phase' = 1
          /\ pc = "Phase" =>
                \/ pc' = "Phase" /\ phase' = phase /\ errors' = errors
                \/ pc' = "Phase" /\ phase < 5 /\ phase' = phase + 1
                \/ pc' = "Score" /\ phase = 5
          /\ pc = "Score" => pc' = "Scored"
          /\ pc = "Scored" => pc' = "Done"
          /\ pc = "Done" => pc' = "Done"]_vars
    /\ (pc # "Idle") ~> (pc = "Done")

C3_Witness == pc = "Done" /\ Len(errors) >= 2

\* C4: the step in which a phase raises leaves the results mapping as it
\* was, also when the phase had matched fields; the phases after it still
\* merge their fields, the seeded fields stay as seeded.
C4_PhaseErrorDiscards ==
    /\ [][errors' # errors => results' = results]_vars
    /\ [](Finished =>
            /\ \A p \in Phases :
                  IF p \in Errored THEN PhaseFields(p) \cap DOMAIN results = {}
                  ELSE PhaseFields(p) \subseteq DOMAIN results
            /\ \A f \in SeededFields : results[f] = Seed(company)[f])

C4_Witness ==
    /\ pc = "Done"
    /\ discarded
    /\ \E p \in Errored, f \in DOMAIN results :
          \E later \in Phases \ Errored :
             later > p /\ f \in PhaseFields(later) /\ results[f].value # << >>

\* C5: when every search of the run ends in the provider's error, no phase
\* raises, the run returns, the 15 researched fields are present with empty
\* value and empty source, and the intent scoring is "Low".
C5_FailSoft ==
    (allFailed /\ pc # "Idle") =>
        /\ errors = << >>
        /\ pc = "Done" =>
              /\ \A f \in ResearchedFields : f \in DOMAIN results /\ results[f] = Unset
              /\ results[F_Score].value = <<"Low">>

C5_Witness == pc = "Done" /\ allFailed

\* the fields of the merged result that hold both a value and a source
Signals == {f \in DOMAIN results \ SyntheticFields :
               results[f].value # << >> /\ results[f].source # << >>}

\* C6: the scoring counts the fields of the merged result with a non-empty
\* value and a non-empty source; the tier is High above 8, Medium above 5 and
\* Low otherwise, and the explanation embeds the same count.
C6_IntentScoring ==
    pc \in {"Scored", "Done"} =>
        LET count == Cardinality(Signals)
        IN  /\ results[F_Score] =
                  Rec(<<CASE count > 8 -> "High"
                          [] count > 5 /\ count <= 8 -> "Medium"
                          [] OTHER -> "Low">>, <<"Algorithm">>)
            /\ results[F_Why].value[2] = Str(count)
            /\ results[F_Why].source = <<"Analysis">>

C6_Witness == pc = "Done" /\ Cardinality(Signals) = 6 /\ results[F_Score].value = <<"Medium">>

Sentinels == {<<"User Input">>, <<"Default">>, <<"Analysis">>, <<"Algorithm">>}
HitURLs == {Format(raw).url : raw \in UNION {RawPool(p) : p \in Phases}} \ {<< >>}

\* C7: in a completed result a field's source is the URL of a hit, or a
\* sentinel label on the seeded and synthetic fields only; a field with a
\* non-empty value has a non-empty source.
C7_SourceProvenance ==
    pc = "Done" =>
        \A f \in DOMAIN results :
            /\ f \in SeededFields \cup SyntheticFields => results[f].source \in Sentinels
            /\ f \in ResearchedFields =>
                  \/ results[f] = Unset
                  \/ results[f].source \in HitURLs
            /\ results[f].value # << >> => results[f].source # << >>

\* the first k template queries of phase p
Template(name, p, k) == [n \in 1..k |-> QueryText(name, p, n)]

\* the phase whose function was called last
LastPhase == IF pc = "Phase" THEN (IF q = 1 THEN phase - 1 ELSE phase) ELSE 5

C8_AppendOnly ==
    [][/\ Len(history') >= Len(history)
       /\ SubSeq(history', 1, Len(history)) = history
       /\ clock' # clock =>
             /\ Len(history') = Len(history) + 1
             /\ DOMAIN history'[Len(history')] = {"company", "timestamp", "data"}
             /\ history'[Len(history')].company \in CompanyInputs
             /\ history'[Len(history')].timestamp = IsoFormat(clock)
       /\ clock' = clock => history' = history]_vars

C8_Witness ==
    /\ Len(history) >= 2
    /\ export # NoExport
    /\ current_research = history[1]

\* a record of the export read back: the fields are the columns that come
\* with a Source column
Recover(csv, i) ==
    LET columns == {csv.columns[k] : k \in 1..Len(csv.columns)}
        fields == {c \in columns : (c \o " Source") \in columns}
    IN  [f \in fields |-> Rec(csv.rows[i][f], csv.rows[i][f \o " Source"])]

\* C9: reading the exported records back gives, for every run, the value and
\* source of each field of the run's result and no other field; the columns
\* of the fields, of their sources, Company and Research Date are distinct.
C9_ExportRoundTrip ==
    export # NoExport =>
        /\ \A i \in 1..Len(export.rows) :
              /\ Recover(export, i) = history[i].data
              /\ export.rows[i]["Company"] = history[i].company
              /\ export.rows[i]["Research Date"] = history[i].timestamp
        /\ Len(export.columns) =
              2 + 2 * Cardinality(UNION {DOMAIN history[i].data : i \in 1..Len(export.rows)})

(***************************************************************************)
(* Properties of the scanning itself (Spec).                               *)
(***************************************************************************)
\* the trigger of field f of phase p holds on a hit, whichever query of the
\* phase returned it
Triggers(p, f, item) == \E n \in 1..NQueries(p) : Candidates(p, n, item)[f].found

\* C11: every scanned hit of every query of a phase is tested against every
\* field of the phase that is still unset: a field that holds no value and
\* whose trigger a scanned hit satisfies is set when the scan of that query
\* ends, in the Expansion phase as in the others.
C11_EveryFieldTested ==
    (pc = "Phase" /\ q <= NQueries(phase)) =>
        \A outcome \in ProviderOutcomes[phase] :
            LET items == Scanned(phase, DuckDuckGoSearch(outcome).results)
                r == QueryStep(phase, q, info, outcome)
            IN  ~r.raised =>
                    \A f \in PhaseFields(phase) :
                        (/\ info[f].value = << >>
                         /\ \E i \in 1..Len(items) : Triggers(phase, f, items[i]))
                        => r.info[f] # Unset

\* the researched fields of the result with both a value and a source
ResearchedSignals == {f \in ResearchedFields \cap DOMAIN results :
                         results[f].value # << >> /\ results[f].source # << >>}

\* C12: the count in the explanation is that of the three seeded fields plus
\* the researched fields with a value and a source, never the synthetic
\* fields; it lies between 3 and 18; the tier is High exactly when at least 6
\* researched fields count, Medium exactly when 3 to 5 do, Low exactly when
\* at most 2 do.
C12_CountRange ==
    pc \in {"Scored", "Done"} =>
        LET n == Cardinality(ResearchedSignals)
            tier == results[F_Score].value
        IN  /\ results[F_Why].value[2] = Str(3 + n)
            /\ 3 + n >= 3 /\ 3 + n <= 18
            /\ tier = <<"High">> <=> n >= 6
            /\ tier = <<"Medium">> <=> (n >= 3 /\ n <= 5)
            /\ tier = <<"Low">> <=> n <= 2

C12_Witness ==
    pc = "Done" /\ Cardinality(ResearchedSignals) = 6 /\ results[F_Score].value = <<"High">>

\* a field record has a value exactly when it has a source
Paired(rec) == (rec.value = << >>) <=> (rec.source = << >>)

\* C13: in every state of a run and in the returned result, each researched
\* field has an empty value if and only if it has an empty source.
C13_ValueIffSource ==
    /\ pc = "Phase" => \A f \in DOMAIN info : Paired(info[f])
    /\ \A f \in ResearchedFields \cap DOMAIN results : Paired(results[f])

\* what the provider returned, cut after its third raw result
FirstThree(outcome) ==
    [ok |-> outcome.ok,
     raw |-> [i \in 1..(IF Len(outcome.raw) > 3 THEN 3 ELSE Len(outcome.raw)) |-> outcome.raw[i]]]

\* C14: for every query of every phase only the first 3 hits in the order
\* the provider returned them are examined: whatever the hits at position 4
\* and later contain, the query fills the fields, and raises or not, as it
\* does without them.
C14_FirstThreeHits ==
    (pc = "Phase" /\ q <= NQueries(phase)) =>
        \A outcome \in ProviderOutcomes[phase] :
            QueryStep(phase, q, info, outcome) = QueryStep(phase, q, info, FirstThree(outcome))

\* a search can return, at position 4, a hit that triggers a field still
\* unset, and the query leaves that field unset
C14_Witness ==
    /\ pc = "Phase"
    /\ q <= NQueries(phase)
    /\ \E outcome \in ProviderOutcomes[phase], f \in PhaseFields(phase) :
          /\ Len(outcome.raw) >= 4
          /\ info[f] = Unset
          /\ Candidates(phase, q, Format(outcome.raw[4]))[f].found
          /\ ~QueryStep(phase, q, info, outcome).raised
          /\ QueryStep(phase, q, info, outcome).info[f] = Unset

====
